---- MODULE Spec2Model ----
(***************************************************************************)
(* infer_types (src/src/nullaxe/functions/_infer_types.py): the per-column *)
(* cascade datetime -> numeric -> boolean -> category, in its pandas       *)
(* branch and in its polars branch.                                        *)
(*                                                                         *)
(* A dataset is a sequence of columns [name, dtype, vals]; a cell is a     *)
(* record [k, s, n]: k is "null", "str" (text s), "num" (the number n/10), *)
(* "bool" (n is 0 or 1) or "dt" (the instant n ticks after the start of    *)
(* the calendar day s).  Storage types: "text" (object / Utf8), "int"      *)
(* (Int64), "float" (Float64), "bool" (boolean / Boolean), "cat"           *)
(* (category / Categorical), "datetime" (datetime64[ns] / Datetime).       *)
(* Thresholds are percentages, so that a/b >= t is a*100 >= t*b.           *)
(***************************************************************************)
EXTENDS Integers, Sequences, FiniteSets, TLC

VARIABLES backend, plPhysCast, caller, df, dfRef, params, cols, i, pc, input,
          log, result, calls

vars == <<backend, plPhysCast, caller, df, dfRef, params, cols, i, pc, input,
          log, result, calls>>

----------------------------------------------------------------------------
\* Bounds of the model.

\* A column is built from at most MaxRuns runs of one repeated value.
MaxRuns == 2
\* infer_types is called at most MaxCalls times in a row on its own result.
MaxCalls == 2

\* Program constants.
BoolThreshold == 95
SampleHead == 50

----------------------------------------------------------------------------
\* Cells.

Null == [k |-> "null", s |-> "", n |-> 0]
Str(t) == [k |-> "str", s |-> t, n |-> 0]
Num(v) == [k |-> "num", s |-> "", n |-> v]
Bool(b) == [k |-> "bool", s |-> "", n |-> IF b THEN 1 ELSE 0]
Dt(day, ticks) == [k |-> "dt", s |-> day, n |-> ticks]
\* The instant c as a number of ticks since the epoch: n ticks more than the
\* ticks at the start of day s, which the cell leaves written as the day.
Ticks(c) ==
  [k |-> "num", s |-> IF c.s = "1970-01-01" THEN "" ELSE c.s, n |-> 10 * c.n]

IsNull(c) == c.k = "null"
NotNull(c) == c.k # "null"

\* The text values of the model, each with its characters.
Chars ==
  [t \in {"1", "1.5", "3.0", "2024-01-01", "x", "true", "None", " Yes",
          "1e20", "", "$1", "$ 1", "x 1", " 1", "1,000.5 $1", "1,000.5"} |->
     CASE t = "1" -> <<"1">>
       [] t = "1.5" -> <<"1", ".", "5">>
       [] t = "3.0" -> <<"3", ".", "0">>
       [] t = "2024-01-01" -> <<"2", "0", "2", "4", "-", "0", "1", "-", "0", "1">>
       [] t = "x" -> <<"x">>
       [] t = "true" -> <<"t", "r", "u", "e">>
       [] t = "None" -> <<"N", "o", "n", "e">>
       [] t = " Yes" -> <<" ", "Y", "e", "s">>
       [] t = "1e20" -> <<"1", "e", "2", "0">>
       [] t = "" -> <<>>
       [] t = "$1" -> <<"$", "1">>
       [] t = "$ 1" -> <<"$", " ", "1">>
       [] t = "x 1" -> <<"x", " ", "1">>
       [] t = " 1" -> <<" ", "1">>
       [] t = "1,000.5 $1" ->
            <<"1", ",", "0", "0", "0", ".", "5", " ", "$", "1">>
       [] t = "1,000.5" -> <<"1", ",", "0", "0", "0", ".", "5">>]

\* The texts a column of the input may hold ("None" is what str() makes of
\* a missing entry, never an input).
Vocab == {"1", "1.5", "3.0", "2024-01-01", "x", "true"}

Digits == {"0", "1", "2", "3", "4", "5", "6", "7", "8", "9"}

DigitVal(c) ==
  CASE c = "0" -> 0 [] c = "1" -> 1 [] c = "2" -> 2 [] c = "3" -> 3
    [] c = "4" -> 4 [] c = "5" -> 5 [] c = "6" -> 6 [] c = "7" -> 7
    [] c = "8" -> 8 [] c = "9" -> 9

AllDigits(cs) == Len(cs) > 0 /\ \A j \in 1..Len(cs) : cs[j] \in Digits

RECURSIVE DigitsValue(_)
DigitsValue(cs) ==
  IF Len(cs) = 0 THEN 0
  ELSE 10 * DigitsValue(SubSeq(cs, 1, Len(cs) - 1)) + DigitVal(cs[Len(cs)])

\* Position of the first "." of cs, 0 when there is none.
DotAt(cs) ==
  IF \E j \in 1..Len(cs) : cs[j] = "."
  THEN CHOOSE j \in 1..Len(cs) :
         cs[j] = "." /\ \A h \in 1..(j - 1) : cs[h] # "."
  ELSE 0

\* Position of the first "e" of cs, 0 when there is none.
ExpAt(cs) ==
  IF \E j \in 1..Len(cs) : cs[j] = "e"
  THEN CHOOSE j \in 1..Len(cs) :
         cs[j] = "e" /\ \A h \in 1..(j - 1) : cs[h] # "e"
  ELSE 0

\* Every number past the range of int64 (2^63 - 1, about 9.2 * 10^18) is
\* kept as this one value, a whole number.
Beyond == 2000 * 1000000
PastInt64(c) == c.k = "num" /\ c.n >= Beyond

RECURSIVE Pow10(_)
Pow10(k) == IF k = 0 THEN 1 ELSE 10 * Pow10(k - 1)

\* Digits "e" digits -> the number in tenths, -1 when the text is not of
\* that form.
ParseExponent(cs) ==
  LET mant == SubSeq(cs, 1, ExpAt(cs) - 1)
      expo == SubSeq(cs, ExpAt(cs) + 1, Len(cs))
  IN IF Len(mant) = 0 \/ Len(expo) = 0 \/ ~AllDigits(mant) \/ ~AllDigits(expo)
     THEN -1
     ELSE IF DigitsValue(mant) = 0 THEN 0
     ELSE IF DigitsValue(expo) >= 19 THEN Beyond
     ELSE 10 * DigitsValue(mant) * Pow10(DigitsValue(expo))

\* Decimal text -> the number in tenths, -1 when the text is no number.
\* Digits, optionally followed by "." and one digit, or digits "e" digits.
ParseNumber(cs) ==
  LET d == DotAt(cs) IN
    IF ExpAt(cs) > 0 THEN ParseExponent(cs)
    ELSE IF d = 0
    THEN IF AllDigits(cs) THEN 10 * DigitsValue(cs) ELSE -1
    ELSE LET whole == SubSeq(cs, 1, d - 1)
             frac == SubSeq(cs, d + 1, Len(cs))
         IN IF AllDigits(whole) /\ AllDigits(frac) /\ Len(frac) = 1
            THEN 10 * DigitsValue(whole) + DigitsValue(frac)
            ELSE -1

\* Integer text -> the number in tenths, -1 when the text is no integer.
ParseInteger(cs) == IF AllDigits(cs) THEN 10 * DigitsValue(cs) ELSE -1

\* %Y-%m-%d
ParseIsoDate(cs) ==
  /\ Len(cs) = 10
  /\ cs[5] = "-" /\ cs[8] = "-"
  /\ AllDigits(SubSeq(cs, 1, 4))
  /\ AllDigits(SubSeq(cs, 6, 7))
  /\ AllDigits(SubSeq(cs, 9, 10))
  /\ DigitsValue(SubSeq(cs, 6, 7)) \in 1..12
  /\ DigitsValue(SubSeq(cs, 9, 10)) \in 1..31

Uppers ==
  <<"A", "B", "C", "D", "E", "F", "G", "H", "I", "J", "K", "L", "M", "N", "O",
    "P", "Q", "R", "S", "T", "U", "V", "W", "X", "Y", "Z">>
Lowers ==
  <<"a", "b", "c", "d", "e", "f", "g", "h", "i", "j", "k", "l", "m", "n", "o",
    "p", "q", "r", "s", "t", "u", "v", "w", "x", "y", "z">>
IsUpper(c) == \E j \in 1..26 : Uppers[j] = c
IsLower(c) == \E j \in 1..26 : Lowers[j] = c

\* str.lower() / str.upper(), one character
LowerChar(c) ==
  IF IsUpper(c) THEN Lowers[CHOOSE j \in 1..26 : Uppers[j] = c] ELSE c
UpperChar(c) ==
  IF IsLower(c) THEN Uppers[CHOOSE j \in 1..26 : Lowers[j] = c] ELSE c

Lower(cs) == [j \in 1..Len(cs) |-> LowerChar(cs[j])]

RECURSIVE Strip(_)
Strip(cs) ==
  IF Len(cs) = 0 THEN cs
  ELSE IF cs[1] = " " THEN Strip(Tail(cs))
  ELSE IF cs[Len(cs)] = " " THEN Strip(SubSeq(cs, 1, Len(cs) - 1))
  ELSE cs

\* bool_map / the two is_in lists: 1 true, 0 false, -1 no token.
BoolToken(cs) ==
  IF cs \in {<<"t", "r", "u", "e">>, <<"y", "e", "s">>, <<"1">>} THEN 1
  ELSE IF cs \in {<<"f", "a", "l", "s", "e">>, <<"n", "o">>, <<"0">>} THEN 0
  ELSE -1

NumberOf == [t \in DOMAIN Chars |-> ParseNumber(Chars[t])]
IntegerOf == [t \in DOMAIN Chars |-> ParseInteger(Chars[t])]
IsIsoDate == [t \in DOMAIN Chars |-> ParseIsoDate(Chars[t])]
\* "." in v or "e" in v.lower()
LooksDecimal ==
  [t \in DOMAIN Chars |->
     \E j \in 1..Len(Chars[t]) : Lower(Chars[t])[j] \in {".", "e"}]

----------------------------------------------------------------------------
\* Columns.

Column(name, dtype, vals) == [name |-> name, dtype |-> dtype, vals |-> vals]

DropNa(vals) == SelectSeq(vals, NotNull)
NotNaCount(vals) == Len(DropNa(vals))
NullCount(vals) == Len(vals) - NotNaCount(vals)
Unique(vals) == {vals[j] : j \in 1..Len(vals)}
HeadN(vals, k) == SubSeq(vals, 1, IF Len(vals) < k THEN Len(vals) ELSE k)

Names(d) == [j \in 1..Len(d) |-> d[j].name]
HasColumn(d, name) == \E j \in 1..Len(d) : d[j].name = name
ColIndex(d, name) == CHOOSE j \in 1..Len(d) : d[j].name = name
GetCol(d, name) == d[ColIndex(d, name)]
SetColAppend(d, c) == Append(d, c)
SetColFirst(d, c) == [d EXCEPT ![1] = c]

\* df[col] = series  /  df.with_columns(series.alias(col)), col an existing
\* column: the column is replaced where it stands.
SetCol(d, c) == [d EXCEPT ![ColIndex(d, c.name)] = c]

SelectColsUnfiltered(d, subset) ==
  IF ~subset.given THEN Names(d) ELSE subset.names

SelectColsAll(d, subset) == Names(d)

SelectColsEmptyIsAll(d, subset) ==
  IF ~subset.given \/ Len(subset.names) = 0 THEN Names(d)
  ELSE SelectSeq(subset.names, LAMBDA name : HasColumn(d, name))

\* [c for c in subset if c in df.columns], or all the columns
SelectCols(d, subset) ==
  IF ~subset.given THEN Names(d)
  ELSE SelectSeq(subset.names, LAMBDA name : HasColumn(d, name))

\* (successes / non_null) >= threshold, the threshold in percent
ReachesStrict(successes, non_null, threshold) ==
  successes * 100 > threshold * non_null

Reaches(successes, non_null, threshold) ==
  successes * 100 >= threshold * non_null

\* "if non_null.empty: continue" / "if non_null == 0: continue"
SkipColumnNever(non_null) == FALSE

SkipColumn(non_null) == non_null = 0

----------------------------------------------------------------------------
\* pandas.

\* pd.to_datetime(series, errors="coerce"), one entry.  Text (and the labels
\* of a category) is parsed; an integer or a float is that many nanoseconds
\* after the epoch; a boolean dtype is refused, which "coerce" turns into
\* NaT; a missing entry is NaT.
PdToDatetimeCell(dtype, c) ==
  IF IsNull(c) THEN Null
  ELSE CASE dtype \in {"text", "cat"} ->
              IF IsIsoDate[c.s] THEN Dt(c.s, 0) ELSE Null
         [] dtype \in {"int", "float"} ->
              IF PastInt64(c) THEN Null ELSE Dt("1970-01-01", c.n \div 10)
         [] dtype = "bool" -> Null
         [] dtype = "datetime" -> c

PdToDatetime(dtype, vals) ==
  [j \in 1..Len(vals) |-> PdToDatetimeCell(dtype, vals[j])]

\* pd.to_numeric(series, errors="coerce"), one entry.  Text is parsed, a
\* failure is NaN; numeric dtypes (boolean among them) come back as they
\* are; a datetime is its nanoseconds since the epoch.
PdToNumericCell(dtype, c) ==
  IF IsNull(c) THEN Null
  ELSE CASE dtype \in {"text", "cat"} ->
              IF NumberOf[c.s] >= 0 THEN Num(NumberOf[c.s]) ELSE Null
         [] dtype \in {"int", "float", "bool"} -> c
         [] dtype = "datetime" -> Ticks(c)

PdToNumeric(dtype, vals) ==
  [j \in 1..Len(vals) |-> PdToNumericCell(dtype, vals[j])]

\* series.astype(float), one entry, in tenths (of a number, or of the ticks
\* past the start of the day of an instant)
AsFloat(c) == IF c.k = "bool" THEN 10 * c.n ELSE c.n

\* _all_int_like, called on a series without missing entries
AllIntLike(vals) ==
  IF Len(vals) = 0 THEN FALSE
  ELSE \A j \in 1..Len(vals) : AsFloat(vals[j]) % 10 = 0

\* full_num.astype("Int64") raises TypeError ("cannot safely cast
\* non-equivalent float64 to int64") when a whole number does not fit int64.
AstypeInt64Raises(vals) == \E j \in 1..Len(vals) : PastInt64(vals[j])

\* full_num.astype("Int64") / .astype("Float64"), one entry
AstypeNumber(c) == IF IsNull(c) THEN Null ELSE Num(AsFloat(c))

AstypeNumbers(vals) == [j \in 1..Len(vals) |-> AstypeNumber(vals[j])]

PdBoolCellDefaultFalse(c) ==
  LET text == IF IsNull(c) THEN "None" ELSE c.s
      tok == BoolToken(Lower(Strip(Chars[text])))
  IN Bool(tok = 1)

\* s.astype(str).str.strip().str.lower().map(bool_map), one entry; a missing
\* entry is the text "None" by then and maps to nothing.
PdBoolCell(c) ==
  LET text == IF IsNull(c) THEN "None" ELSE c.s
      tok == BoolToken(Lower(Strip(Chars[text])))
  IN IF tok = -1 THEN Null ELSE Bool(tok = 1)

PdBoolMap(vals) == [j \in 1..Len(vals) |-> PdBoolCell(vals[j])]

PandasColumnNumericFirst(c, p) ==
  LET s == c.vals
      non_null == DropNa(s)
      parsed_dt == PdToDatetime(c.dtype, non_null)
      parsed_num == PdToNumeric(c.dtype, non_null)
      full_num == PdToNumeric(c.dtype, s)
      mapped == PdBoolMap(non_null)
  IN IF SkipColumn(Len(non_null))
     THEN [outcome |-> "skipped", col |-> c]
     ELSE IF Reaches(NotNaCount(parsed_num), Len(non_null), p.numeric_threshold)
     THEN IF AllIntLike(DropNa(full_num))
          THEN IF AstypeInt64Raises(full_num)
               THEN [outcome |-> "error", col |-> c]
               ELSE [outcome |-> "int",
                     col |-> Column(c.name, "int", AstypeNumbers(full_num))]
          ELSE [outcome |-> "float",
                col |-> Column(c.name, "float", AstypeNumbers(full_num))]
     ELSE IF Reaches(NotNaCount(parsed_dt), Len(non_null), p.datetime_threshold)
     THEN [outcome |-> "datetime",
           col |-> Column(c.name, "datetime", PdToDatetime(c.dtype, s))]
     ELSE IF Reaches(NotNaCount(mapped), Len(non_null), BoolThreshold)
     THEN [outcome |-> "bool", col |-> Column(c.name, "bool", PdBoolMap(s))]
     ELSE IF Cardinality(Unique(non_null)) * 100
               <= p.category_unique_ratio * Len(non_null)
     THEN [outcome |-> "category", col |-> Column(c.name, "cat", s)]
     ELSE [outcome |-> "none", col |-> c]

\* One iteration of the loop of the pandas branch on column c: the outcome
\* and the column as it is afterwards.
PandasColumn(c, p) ==
  LET s == c.vals
      non_null == DropNa(s)
      parsed_dt == PdToDatetime(c.dtype, non_null)
      parsed_num == PdToNumeric(c.dtype, non_null)
      full_num == PdToNumeric(c.dtype, s)
      mapped == PdBoolMap(non_null)
  IN IF SkipColumn(Len(non_null))
     THEN [outcome |-> "skipped", col |-> c]
     ELSE IF Reaches(NotNaCount(parsed_dt), Len(non_null), p.datetime_threshold)
     THEN [outcome |-> "datetime",
           col |-> Column(c.name, "datetime", PdToDatetime(c.dtype, s))]
     ELSE IF Reaches(NotNaCount(parsed_num), Len(non_null), p.numeric_threshold)
     THEN IF AllIntLike(DropNa(full_num))
          THEN IF AstypeInt64Raises(full_num)
               THEN [outcome |-> "error", col |-> c]
               ELSE [outcome |-> "int",
                     col |-> Column(c.name, "int", AstypeNumbers(full_num))]
          ELSE [outcome |-> "float",
                col |-> Column(c.name, "float", AstypeNumbers(full_num))]
     ELSE IF Reaches(NotNaCount(mapped), Len(non_null), BoolThreshold)
     THEN [outcome |-> "bool", col |-> Column(c.name, "bool", PdBoolMap(s))]
     ELSE IF Cardinality(Unique(non_null)) * 100
               <= p.category_unique_ratio * Len(non_null)
     THEN [outcome |-> "category", col |-> Column(c.name, "cat", s)]
     ELSE [outcome |-> "none", col |-> c]

----------------------------------------------------------------------------
\* polars.

\* series.str.strptime(pl.Datetime, format="%Y-%m-%d", strict=False)
PlStrptimeIso(vals) ==
  [j \in 1..Len(vals) |->
     IF NotNull(vals[j]) /\ IsIsoDate[vals[j].s] THEN Dt(vals[j].s, 0) ELSE Null]

\* series.str.strptime(pl.Datetime, strict=False): the format is inferred;
\* of the texts of the model it finds the dates the ISO format finds.
PlStrptimeGeneric(vals) ==
  [j \in 1..Len(vals) |->
     IF NotNull(vals[j]) /\ IsIsoDate[vals[j].s] THEN Dt(vals[j].s, 0) ELSE Null]

\* The physical code of each label of a categorical column: labels are
\* numbered from 0 in the order of their first appearance.
CatCode(vals, label) ==
  LET first == CHOOSE j \in 1..Len(vals) :
                 /\ vals[j] = Str(label)
                 /\ \A h \in 1..(j - 1) : vals[h] # Str(label)
  IN Cardinality({vals[h] : h \in {h \in 1..(first - 1) : NotNull(vals[h])}})

\* series.cast(pl.Datetime, strict=False) of a column that is not text
\* raises for some dtypes in some builds of polars; the code catches it.
\* phys: the build casts Boolean and Categorical through their physical
\* integers instead of raising.
PlCastDatetimeRaises(dtype, phys) == dtype \in {"bool", "cat"} /\ ~phys

\* A number is that many microseconds after the epoch (a float truncated,
\* null when it does not fit int64).
PlCastDatetime(dtype, vals) ==
  LET codes == [c \in Unique(DropNa(vals)) |-> CatCode(vals, c.s)]
  IN [j \in 1..Len(vals) |->
        IF IsNull(vals[j]) THEN Null
        ELSE CASE dtype \in {"int", "float"} ->
                    IF PastInt64(vals[j]) THEN Null
                    ELSE Dt("1970-01-01", vals[j].n \div 10)
               [] dtype = "bool" -> Dt("1970-01-01", vals[j].n)
               [] dtype = "cat" -> Dt("1970-01-01", codes[vals[j]])
               [] dtype = "datetime" -> vals[j]]

\* series.cast(pl.Int64, strict=False), one entry: text must be an integer
\* literal, a float is truncated (null when it does not fit), a boolean is
\* 0 or 1, the labels of a
\* categorical are parsed as text, a datetime is its microseconds since the
\* epoch.
PlCastInt64Cell(dtype, c) ==
  IF IsNull(c) THEN Null
  ELSE CASE dtype \in {"text", "cat"} ->
              IF IntegerOf[c.s] >= 0 THEN Num(IntegerOf[c.s]) ELSE Null
         [] dtype \in {"int", "float"} ->
              IF PastInt64(c) THEN Null ELSE Num(10 * (c.n \div 10))
         [] dtype = "bool" -> Num(10 * c.n)
         [] dtype = "datetime" -> Ticks(c)

PlCastInt64(dtype, vals) ==
  [j \in 1..Len(vals) |-> PlCastInt64Cell(dtype, vals[j])]

\* series.cast(pl.Float64, strict=False), one entry
PlCastFloat64Cell(dtype, c) ==
  IF IsNull(c) THEN Null
  ELSE CASE dtype \in {"text", "cat"} ->
              IF NumberOf[c.s] >= 0 THEN Num(NumberOf[c.s]) ELSE Null
         [] dtype \in {"int", "float"} -> c
         [] dtype = "bool" -> Num(10 * c.n)
         [] dtype = "datetime" -> Ticks(c)

PlCastFloat64(dtype, vals) ==
  [j \in 1..Len(vals) |-> PlCastFloat64Cell(dtype, vals[j])]

\* has_decimal: "." or "e" in one of the first 50 non-null texts
HasDecimal(dtype, vals) ==
  IF dtype = "text"
  THEN LET sample == HeadN(DropNa(vals), SampleHead)
       IN \E j \in 1..Len(sample) : LooksDecimal[sample[j].s]
  ELSE FALSE

\* bool_expr: when(lower in true-list) True, when(lower in false-list) False,
\* otherwise None
PlBoolCell(c) ==
  LET tok == IF IsNull(c) THEN -1 ELSE BoolToken(Lower(Chars[c.s]))
  IN IF tok = -1 THEN Null ELSE Bool(tok = 1)

PlBoolExpr(vals) == [j \in 1..Len(vals) |-> PlBoolCell(vals[j])]

\* The datetime candidate of the polars branch: <<found, values>>.
PlDtCandidate(c, p, phys) ==
  LET series == c.vals
      total == Len(series)
      non_null == total - NullCount(series)
      iso == PlStrptimeIso(series)
      generic == PlStrptimeGeneric(series)
      cast_dt == PlCastDatetime(c.dtype, series)
  IN IF c.dtype = "text"
     THEN IF Reaches(total - NullCount(iso), non_null, p.datetime_threshold)
          THEN <<TRUE, iso>>
          ELSE IF Reaches(total - NullCount(generic), non_null,
                          p.datetime_threshold)
          THEN <<TRUE, generic>>
          ELSE <<FALSE, <<>>>>
     ELSE IF PlCastDatetimeRaises(c.dtype, phys) THEN <<FALSE, <<>>>>
          ELSE IF Reaches(total - NullCount(cast_dt), non_null,
                          p.datetime_threshold)
          THEN <<TRUE, cast_dt>>
          ELSE <<FALSE, <<>>>>

Max(a, b) == IF a >= b THEN a ELSE b

PolarsColumnBoolFirst(c, p, phys) ==
  LET series == c.vals
      total == Len(series)
      non_null == total - NullCount(series)
      dt_candidate == PlDtCandidate(c, p, phys)
      has_decimal == HasDecimal(c.dtype, series)
      int_cast == PlCastInt64(c.dtype, series)
      float_cast == PlCastFloat64(c.dtype, series)
      temp == PlBoolExpr(series)
      uniques == Cardinality(Unique(series))
  IN IF SkipColumn(non_null)
     THEN [outcome |-> "skipped", col |-> c]
     ELSE IF dt_candidate[1]
     THEN [outcome |-> "datetime",
           col |-> Column(c.name, "datetime", dt_candidate[2])]
     ELSE IF /\ c.dtype = "text"
             /\ Reaches(total - NullCount(temp), non_null, BoolThreshold)
     THEN [outcome |-> "bool", col |-> Column(c.name, "bool", temp)]
     ELSE IF /\ ~has_decimal
             /\ Reaches(total - NullCount(int_cast), non_null,
                        p.numeric_threshold)
     THEN [outcome |-> "int", col |-> Column(c.name, "int", int_cast)]
     ELSE IF Reaches(total - NullCount(float_cast), non_null,
                     p.numeric_threshold)
     THEN [outcome |-> "float", col |-> Column(c.name, "float", float_cast)]
     ELSE IF uniques * 100 <= p.category_unique_ratio * Max(1, non_null)
     THEN [outcome |-> "category", col |-> Column(c.name, "cat", series)]
     ELSE [outcome |-> "none", col |-> c]

\* One iteration of the loop of the polars branch on column c: the outcome
\* and the column as it is afterwards.
PolarsColumn(c, p, phys) ==
  LET series == c.vals
      total == Len(series)
      non_null == total - NullCount(series)
      dt_candidate == PlDtCandidate(c, p, phys)
      has_decimal == HasDecimal(c.dtype, series)
      int_cast == PlCastInt64(c.dtype, series)
      float_cast == PlCastFloat64(c.dtype, series)
      temp == PlBoolExpr(series)
      uniques == Cardinality(Unique(series))
  IN IF SkipColumn(non_null)
     THEN [outcome |-> "skipped", col |-> c]
     ELSE IF dt_candidate[1]
     THEN [outcome |-> "datetime",
           col |-> Column(c.name, "datetime", dt_candidate[2])]
     ELSE IF /\ ~has_decimal
             /\ Reaches(total - NullCount(int_cast), non_null,
                        p.numeric_threshold)
     THEN [outcome |-> "int", col |-> Column(c.name, "int", int_cast)]
     ELSE IF Reaches(total - NullCount(float_cast), non_null,
                     p.numeric_threshold)
     THEN [outcome |-> "float", col |-> Column(c.name, "float", float_cast)]
     ELSE IF /\ c.dtype = "text"
             /\ Reaches(total - NullCount(temp), non_null, BoolThreshold)
     THEN [outcome |-> "bool", col |-> Column(c.name, "bool", temp)]
     ELSE IF uniques * 100 <= p.category_unique_ratio * Max(1, non_null)
     THEN [outcome |-> "category", col |-> Column(c.name, "cat", series)]
     ELSE [outcome |-> "none", col |-> c]

----------------------------------------------------------------------------
\* The inputs of the model.

\* The shapes of a dataset, as the lengths of its runs of equal rows: a
\* first run of one row or of as many rows as the decimal sample reads,
\* then single rows.
Shapes ==
  {<<>>} \cup
  {<<first>> \o [j \in 1..k |-> 1] :
     <<first, k>> \in {1, SampleHead} \X (0..(MaxRuns - 1))}

RECURSIVE Expand(_, _)
\* The cells of a column that holds cell[j] in each row of run j.
Expand(shape, cell) ==
  IF Len(shape) = 0 THEN <<>>
  ELSE Expand(SubSeq(shape, 1, Len(shape) - 1),
              SubSeq(cell, 1, Len(shape) - 1))
         \o [j \in 1..shape[Len(shape)] |-> cell[Len(shape)]]

InputCells == {Null} \cup {Str(t) : t \in Vocab}

\* Column "a" holds any value in each run, column "b" the text "1" throughout.
Datasets ==
  {<<Column("a", "text", Expand(sh, ca)),
     Column("b", "text", Expand(sh, [j \in 1..Len(sh) |-> Str("1")]))>> :
       <<sh, ca>> \in UNION {{sh} \X [1..Len(sh) -> InputCells] : sh \in Shapes}}

NoSubset == [given |-> FALSE, names |-> <<>>]
Subset(names) == [given |-> TRUE, names |-> names]
Subsets == {NoSubset, Subset(<<"a">>), Subset(<<"zz", "b">>)}

\* numeric_threshold, datetime_threshold, category_unique_ratio, in percent:
\* the defaults, and one half for the two parse thresholds.
ThresholdConfigs == {<<60, 60, 5>>, <<50, 50, 5>>}

Params ==
  {[subset |-> su, numeric_threshold |-> th[1], datetime_threshold |-> th[2],
    category_unique_ratio |-> th[3], inplace |-> ip] :
     <<su, th, ip>> \in Subsets \X ThresholdConfigs \X BOOLEAN}

LocalRefNoCopy == "caller"

\* The object the local name df is bound to after "if not inplace: df =
\* df.copy()"; the polars branch has no such statement.
LocalRef ==
  IF backend = "pandas" /\ ~params.inplace THEN "copy" ELSE "caller"

WithColumnsRefKept(ref, recast) == ref

\* df = df.with_columns(...) binds df to a new frame.
WithColumnsRef(ref, recast) == IF recast THEN "new" ELSE ref

\* df is the caller's own object, which "df[col] = ..." of the pandas
\* branch assigns into.
Aliased == backend = "pandas" /\ dfRef = "caller"

Init ==
  /\ backend \in {"pandas", "polars"}
  /\ plPhysCast \in BOOLEAN
  /\ backend = "pandas" => plPhysCast
  /\ caller \in Datasets
  /\ df = caller
  /\ dfRef = "caller"
  /\ params \in Params
  /\ cols = <<>>
  /\ i = 1
  /\ pc = "call"
  /\ input = caller
  /\ log = <<>>
  /\ result = <<>>
  /\ calls = 0

\* Entry of infer_types: the copy of the pandas branch and the list cols.
Enter ==
  /\ pc = "call"
  /\ backend \in {"pandas", "polars"}
  /\ df' = caller
  /\ dfRef' = LocalRef
  /\ cols' = SelectCols(caller, params.subset)
  /\ i' = 1
  /\ pc' = "loop"
  /\ UNCHANGED <<backend, plPhysCast, caller, params, input, log, result, calls>>

LogEntry(pre, r) ==
  [name |-> pre.name, outcome |-> r.outcome, pre |-> pre, post |-> r.col]

\* One iteration of "for col in cols" of the pandas branch; an exception
\* of astype leaves the function.
PandasStep ==
  /\ pc = "loop"
  /\ backend = "pandas"
  /\ i <= Len(cols)
  /\ LET pre == GetCol(df, cols[i])
         r == PandasColumn(pre, params)
     IN IF r.outcome = "error"
        THEN /\ pc' = "raised"
             /\ UNCHANGED <<df, log, i>>
        ELSE /\ df' = IF r.outcome \in {"skipped", "none"} THEN df
                      ELSE SetCol(df, r.col)
             /\ log' = Append(log, LogEntry(pre, r))
             /\ i' = i + 1
             /\ pc' = pc
  /\ caller' = IF Aliased THEN df' ELSE caller
  /\ UNCHANGED <<backend, plPhysCast, dfRef, params, cols, input, result, calls>>

\* One iteration of "for col in cols" of the polars branch.
PolarsStep ==
  /\ pc = "loop"
  /\ backend = "polars"
  /\ i <= Len(cols)
  /\ LET pre == GetCol(df, cols[i])
         r == PolarsColumn(pre, params, plPhysCast)
     IN /\ df' = IF r.outcome \in {"skipped", "none"} THEN df ELSE SetCol(df, r.col)
        /\ dfRef' = WithColumnsRef(dfRef, r.outcome \notin {"skipped", "none"})
        /\ log' = Append(log, LogEntry(pre, r))
  /\ i' = i + 1
  /\ UNCHANGED <<backend, plPhysCast, caller, params, cols, pc, input, result, calls>>

\* return df
Return ==
  /\ pc = "loop"
  /\ i > Len(cols)
  /\ result' = df
  /\ calls' = calls + 1
  /\ pc' = "done"
  /\ UNCHANGED <<backend, plPhysCast, caller, df, dfRef, params, cols, i, input,
                 log>>

\* The caller passes the returned dataset to infer_types again, with the
\* same arguments.
Again ==
  /\ pc = "done"
  /\ calls < MaxCalls
  /\ caller' = result
  /\ df' = result
  /\ dfRef' = "caller"
  /\ input' = result
  /\ cols' = <<>>
  /\ i' = 1
  /\ log' = <<>>
  /\ pc' = "call"
  /\ UNCHANGED <<backend, plPhysCast, params, result, calls>>

Next == Enter \/ PandasStep \/ PolarsStep \/ Return \/ Again

Spec == Init /\ [][Next]_vars

\* raise TypeError: the input is neither a pandas nor a polars DataFrame.
Raise ==
  /\ pc = "call"
  /\ backend \notin {"pandas", "polars"}
  /\ pc' = "raised"
  /\ UNCHANGED <<backend, plPhysCast, caller, df, dfRef, params, cols, i, input,
                 log, result, calls>>

----------------------------------------------------------------------------
\* What the backend at hand makes of a column under each type of the cascade.

AllNull(vals) == [j \in 1..Len(vals) |-> Null]

DtParsed(c) ==
  IF backend = "pandas" THEN PdToDatetime(c.dtype, c.vals)
  ELSE IF c.dtype = "text" THEN PlStrptimeIso(c.vals)
  ELSE IF PlCastDatetimeRaises(c.dtype, plPhysCast) THEN AllNull(c.vals)
  ELSE PlCastDatetime(c.dtype, c.vals)

NumParsed(c) ==
  IF backend = "pandas" THEN PdToNumeric(c.dtype, c.vals)
  ELSE PlCastFloat64(c.dtype, c.vals)

BoolParsed(c) ==
  IF backend = "pandas" THEN PdBoolMap(c.vals)
  ELSE IF c.dtype = "text" THEN PlBoolExpr(c.vals)
  ELSE AllNull(c.vals)

UniqueCount(c) ==
  IF backend = "pandas" THEN Cardinality(Unique(DropNa(c.vals)))
  ELSE Cardinality(Unique(c.vals))

DtCond(c) ==
  NotNaCount(DtParsed(c)) * 100 >= params.datetime_threshold * NotNaCount(c.vals)
NumCond(c) ==
  NotNaCount(NumParsed(c)) * 100 >= params.numeric_threshold * NotNaCount(c.vals)
BoolCond(c) ==
  NotNaCount(BoolParsed(c)) * 100 >= BoolThreshold * NotNaCount(c.vals)
CatCond(c) ==
  UniqueCount(c) * 100 <= params.category_unique_ratio * NotNaCount(c.vals)

\* The heuristic an outcome belongs to.
Heuristic(outcome) ==
  CASE outcome = "datetime" -> "datetime"
    [] outcome \in {"int", "float"} -> "numeric"
    [] outcome = "bool" -> "boolean"
    [] outcome = "category" -> "category"
    [] OTHER -> "none"

\* The first heuristic of the cascade whose condition holds for column c.
FirstMatch(c) ==
  IF DtCond(c) THEN "datetime"
  ELSE IF NumCond(c) THEN "numeric"
  ELSE IF BoolCond(c) THEN "boolean"
  ELSE IF CatCond(c) THEN "category"
  ELSE "none"

Entries == {log[j] : j \in 1..Len(log)}
HasValues(c) == NotNaCount(c.vals) > 0
Recast(e) == e.outcome \notin {"skipped", "none"}

----------------------------------------------------------------------------
\* C1: infer_types returns a dataset with the same number of rows and the
\* same column names in the same order as its input; this holds of df at
\* every step of the call and of the dataset returned.
SameShape(d, e) ==
  /\ Names(d) = Names(e)
  /\ \A j \in 1..Len(d) : Len(d[j].vals) = Len(e[j].vals)

C1_ShapePreserved ==
  /\ SameShape(df, input)
  /\ pc = "done" => SameShape(result, input)

C1_Witness ==
  /\ pc = "done"
  /\ Len(result) = 2
  /\ Len(result[1].vals) > 1
  /\ \E e \in Entries : Recast(e) /\ e.name = "b"
  /\ result # input

C3_DatetimeWins ==
  \A e \in Entries :
    (HasValues(e.pre) /\ DtCond(e.pre) /\ NumCond(e.pre)) =>
      e.outcome = "datetime" /\ e.post.dtype = "datetime"

\* A text column of which a part parses as dates and a part as numbers.
C3_Witness ==
  \E e \in Entries :
    /\ e.pre.dtype = "text"
    /\ DtCond(e.pre) /\ NumCond(e.pre)
    /\ NotNaCount(DtParsed(e.pre)) < NotNaCount(e.pre.vals)
    /\ NotNaCount(NumParsed(e.pre)) > 0
    /\ e.post.dtype = "datetime"

\* C4: infer_types is idempotent: a second call on the dataset the first
\* call returned, with the same thresholds, returns it with the same
\* storage types and the same values.
C4_Idempotent == (pc = "done" /\ calls >= 2) => result = input

\* C5: the datetime attempt recasts a column iff successes / non_null >=
\* datetime_threshold, and when it did not, the numeric attempt recasts it
\* iff successes / non_null >= numeric_threshold (equality converts); a text
\* column that matches no heuristic stays text.
C5_ThresholdIff ==
  \A e \in Entries :
    HasValues(e.pre) =>
      /\ e.outcome = "datetime" <=> DtCond(e.pre)
      /\ e.outcome # "datetime" =>
           (Heuristic(e.outcome) = "numeric" <=> NumCond(e.pre))
      /\ (e.pre.dtype = "text" /\ FirstMatch(e.pre) = "none") =>
           e.post.dtype = "text"

\* A text column whose numeric parse ratio is exactly numeric_threshold,
\* which is recast to a numeric type.
C5_Witness ==
  \E e \in Entries :
    /\ e.pre.dtype = "text"
    /\ ~DtCond(e.pre)
    /\ NotNaCount(NumParsed(e.pre)) * 100
         = params.numeric_threshold * NotNaCount(e.pre.vals)
    /\ NotNaCount(NumParsed(e.pre)) < NotNaCount(e.pre.vals)
    /\ Heuristic(e.outcome) = "numeric"

\* The number (in tenths) a value parses to, as text or as a stored number.
IsNumber(c, j) ==
  c.dtype \in {"text", "int", "float"} /\ NotNull(NumParsed(c)[j])
NumberAt(c, j) == AsFloat(NumParsed(c)[j])
IsDate(c, j) == NotNull(DtParsed(c)[j])
IsBoolToken(c, j) == c.dtype = "text" /\ NotNull(BoolParsed(c)[j])

\* C6: a column in which every non-null value parses as an integer-valued
\* number (texts such as "3.0" and columns already stored as integers
\* included) has integer storage after infer_types.
C6_IntegralIsInteger ==
  \A e \in Entries :
    ( /\ HasValues(e.pre)
      /\ e.pre.dtype \in {"text", "int"}
      /\ \A j \in 1..Len(e.pre.vals) :
           NotNull(e.pre.vals[j]) =>
             IsNumber(e.pre, j) /\ NumberAt(e.pre, j) % 10 = 0 )
    => e.post.dtype = "int"

\* C7: when the numeric attempt wins a column and one of its values parses
\* to a number with a non-zero fractional part, wherever it stands in the
\* column, the column is recast to float and never to integer.
C7_FractionIsFloat ==
  \A e \in Entries :
    ( /\ Heuristic(e.outcome) = "numeric"
      /\ \E j \in 1..Len(e.pre.vals) :
           IsNumber(e.pre, j) /\ NumberAt(e.pre, j) % 10 # 0 )
    => e.post.dtype = "float"

\* C8: a non-null value of the input is null in the output only if it
\* failed to parse under the type that won its column; a value that parses
\* as a number in a column recast to numeric, or as a date in a column
\* recast to datetime, is kept as its parsed value.
C8_OnlyFailuresBecomeNull ==
  \A e \in Entries : \A j \in 1..Len(e.pre.vals) :
    NotNull(e.pre.vals[j]) =>
      /\ IsNull(e.post.vals[j]) =>
           \/ Heuristic(e.outcome) = "datetime" /\ ~IsDate(e.pre, j)
           \/ Heuristic(e.outcome) = "numeric" /\ ~IsNumber(e.pre, j)
           \/ Heuristic(e.outcome) = "boolean" /\ ~IsBoolToken(e.pre, j)
      /\ (Heuristic(e.outcome) = "numeric" /\ IsNumber(e.pre, j)) =>
           e.post.vals[j] = Num(NumberAt(e.pre, j))
      /\ (Heuristic(e.outcome) = "datetime" /\ IsDate(e.pre, j)) =>
           e.post.vals[j] = DtParsed(e.pre)[j]

\* C9: every entry that is null in the input column is null in the output
\* column, whichever heuristic recast the column.
C9_NullsStayNull ==
  /\ \A e \in Entries : \A j \in 1..Len(e.pre.vals) :
       IsNull(e.pre.vals[j]) => IsNull(e.post.vals[j])
  /\ pc = "done" =>
       \A h \in 1..Len(input) : \A j \in 1..Len(input[h].vals) :
         IsNull(input[h].vals[j]) => IsNull(result[h].vals[j])

\* A column with a null entry that the boolean heuristic recast, after the
\* call returned.
C9_Witness ==
  /\ pc = "done"
  /\ \E e \in Entries :
       /\ e.outcome = "bool"
       /\ \E j \in 1..Len(e.pre.vals) : IsNull(e.pre.vals[j])
       /\ \E j \in 1..Len(e.post.vals) : NotNull(e.post.vals[j])

\* C10: a selected column without a non-null value is skipped: no heuristic
\* is applied to it and its storage type and values are unchanged.
C10_AllNullSkipped ==
  /\ \A e \in Entries :
       ~HasValues(e.pre) => e.outcome = "skipped" /\ e.post = e.pre
  /\ pc = "done" =>
       \A h \in 1..Len(input) : ~HasValues(input[h]) => result[h] = input[h]

\* An all-null column with rows that was selected and skipped.
C10_Witness ==
  /\ pc = "done"
  /\ \E e \in Entries :
       ~HasValues(e.pre) /\ Len(e.pre.vals) > 0 /\ e.outcome = "skipped"

----------------------------------------------------------------------------
\* Columns of boolean tokens: texts that are a token, a token in another
\* case and with a leading blank, no token, and a token that is a number.

TokenCells == {Null, Str("true"), Str(" Yes"), Str("x"), Str("1")}

TokenDatasets ==
  {<<Column("a", "text", Expand(sh, ca)),
     Column("b", "text", Expand(sh, [j \in 1..Len(sh) |-> Str("1")]))>> :
       <<sh, ca>> \in UNION {{sh} \X [1..Len(sh) -> TokenCells] : sh \in Shapes}}

\* The defaults, one half for the parse thresholds, a category ratio that
\* every column meets and one that a single value in 50 rows just meets.
TokenParams ==
  {[subset |-> NoSubset, numeric_threshold |-> th[1],
    datetime_threshold |-> th[2], category_unique_ratio |-> th[3],
    inplace |-> TRUE] : th \in ThresholdConfigs \cup {<<60, 60, 100>>, <<60, 60, 2>>}}

InitTokens ==
  /\ backend \in {"pandas", "polars"}
  /\ plPhysCast \in BOOLEAN
  /\ backend = "pandas" => plPhysCast
  /\ caller \in TokenDatasets
  /\ df = caller
  /\ dfRef = "caller"
  /\ params \in TokenParams
  /\ cols = <<>>
  /\ i = 1
  /\ pc = "call"
  /\ input = caller
  /\ log = <<>>
  /\ result = <<>>
  /\ calls = 0

SpecTokens == InitTokens /\ [][Next]_vars

\* The token table of the specification, on the characters of a text.
TrueTokens == {<<"t", "r", "u", "e">>, <<"y", "e", "s">>, <<"1">>}
FalseTokens == {<<"f", "a", "l", "s", "e">>, <<"n", "o">>, <<"0">>}
TokenCell(cs) ==
  IF cs \in TrueTokens THEN Bool(TRUE)
  ELSE IF cs \in FalseTokens THEN Bool(FALSE)
  ELSE Null

\* The text of a cell as the specification compares it with the tokens:
\* lowercase, trimmed.
TrimmedText(c) == Lower(Strip(Chars[c.s]))

\* The non-null values of column c that are a token.
TokenHits(c) ==
  {j \in 1..Len(c.vals) :
     NotNull(c.vals[j]) /\ NotNull(TokenCell(TrimmedText(c.vals[j])))}

\* C11: when neither the datetime nor the numeric attempt matched, a column
\* is recast to boolean iff the fraction of its non-null values that are
\* one of the six tokens is >= 0.95, whatever the three thresholds; in the
\* recast column true/yes/1 are true, false/no/0 are false and every other
\* value is null.
C11_BooleanIff ==
  \A e \in Entries :
    ( /\ HasValues(e.pre) /\ e.pre.dtype = "text"
      /\ ~DtCond(e.pre) /\ ~NumCond(e.pre) )
    =>
      /\ e.outcome = "bool" <=>
           Cardinality(TokenHits(e.pre)) * 100 >= 95 * NotNaCount(e.pre.vals)
      /\ e.outcome = "bool" =>
           /\ e.post.dtype = "bool"
           /\ \A j \in 1..Len(e.pre.vals) :
                e.post.vals[j] =
                  IF IsNull(e.pre.vals[j]) THEN Null
                  ELSE TokenCell(TrimmedText(e.pre.vals[j]))

\* C12: token matching normalizes a value to lowercase trimmed text first:
\* a value that differs from a token only by case or by blanks around it
\* counts as a success in the 0.95 ratio and maps to the token's boolean.
C12_TrimmedLowercase ==
  \A e \in Entries :
    ( /\ HasValues(e.pre) /\ e.pre.dtype = "text"
      /\ ~DtCond(e.pre) /\ ~NumCond(e.pre)
      /\ \E j \in TokenHits(e.pre) :
           Chars[e.pre.vals[j].s] \notin TrueTokens \cup FalseTokens
      /\ Cardinality(TokenHits(e.pre)) * 100 >= 95 * NotNaCount(e.pre.vals) )
    =>
      /\ e.outcome = "bool"
      /\ \A j \in TokenHits(e.pre) :
           e.post.vals[j] = TokenCell(TrimmedText(e.pre.vals[j]))

\* The distinct values of a column; a null is an absent value, not one.
DistinctValues(c) == Unique(DropNa(c.vals))

\* C13: when no earlier heuristic matched, a column is recast to categorical
\* iff unique_count / non_null <= category_unique_ratio; the recast keeps
\* the values as labels and nulls as null, and a column above the ratio
\* keeps its type and values.
C13_CategoryIff ==
  \A e \in Entries :
    (HasValues(e.pre) /\ e.pre.dtype = "text"
       /\ e.outcome \notin {"datetime", "int", "float", "bool"})
    =>
      /\ e.outcome = "category" <=>
           Cardinality(DistinctValues(e.pre)) * 100
             <= params.category_unique_ratio * NotNaCount(e.pre.vals)
      /\ e.outcome = "category" =>
           e.post.dtype = "cat" /\ e.post.vals = e.pre.vals
      /\ e.outcome # "category" => e.post = e.pre

----------------------------------------------------------------------------
\* Calls with a subset in either order, an empty subset, an unknown name,
\* datasets with no column or no row, either column order, and an input
\* that is not a DataFrame.

CallCellsA == {Null, Str("1"), Str("x"), Str("1e20")}
CallCellsB == {Str("1"), Str("x")}

CallDatasets ==
  {<<>>} \cup
  UNION {{<<Column("a", "text", v[1]), Column("b", "text", v[2])>>,
          <<Column("b", "text", v[2]), Column("a", "text", v[1])>>} :
           v \in UNION {[1..n -> CallCellsA] \X [1..n -> CallCellsB] :
                          n \in 0..MaxRuns}}

CallSubsets ==
  {NoSubset, Subset(<<>>), Subset(<<"a">>), Subset(<<"zz", "b">>),
   Subset(<<"a", "b">>), Subset(<<"b", "a">>)}

CallParams ==
  {[subset |-> su, numeric_threshold |-> 60, datetime_threshold |-> 60,
    category_unique_ratio |-> 5, inplace |-> ip] :
     <<su, ip>> \in CallSubsets \X BOOLEAN}

InitCall ==
  /\ backend \in {"pandas", "polars", "dict"}
  /\ plPhysCast \in BOOLEAN
  /\ backend # "polars" => plPhysCast
  /\ caller \in CallDatasets
  /\ df = caller
  /\ dfRef = "caller"
  /\ params \in CallParams
  /\ cols = <<>>
  /\ i = 1
  /\ pc = "call"
  /\ input = caller
  /\ log = <<>>
  /\ result = <<>>
  /\ calls = 0

NextCall == Next \/ Raise

SpecCall == InitCall /\ [][NextCall]_vars

\* The input is a pandas or a polars DataFrame.
Tabular == backend \in {"pandas", "polars"}

\* One iteration of the loop of the backend at hand on column c alone.
ColumnResult(c) ==
  IF backend = "pandas" THEN PandasColumn(c, params)
  ELSE PolarsColumn(c, params, plPhysCast)

SubsetNames == {params.subset.names[j] : j \in 1..Len(params.subset.names)}
UnknownNames == {n \in SubsetNames : ~HasColumn(input, n)}
KnownNames == {n \in SubsetNames : HasColumn(input, n)}

\* C14: a name of subset that is no column of the dataset is skipped in
\* silence: no error comes of it, no column is created for it, and the
\* other names of subset are processed as they are without it.
C14_UnknownNameSkipped ==
  (Tabular /\ params.subset.given /\ UnknownNames # {})
  =>
    /\ pc # "call" =>
         cols = SelectSeq(params.subset.names, LAMBDA n : n \in KnownNames)
    /\ Names(df) = Names(input)
    /\ \A e \in Entries : e.name \in KnownNames
    /\ pc = "raised" =>
         /\ i <= Len(cols)
         /\ ColumnResult(GetCol(df, cols[i])).outcome = "error"
    /\ pc = "done" =>
         /\ Names(result) = Names(input)
         /\ \A n \in KnownNames :
              GetCol(result, n) = ColumnResult(GetCol(input, n)).col

\* A call with an unknown name and a column has returned, the column recast.
C14_Witness ==
  /\ pc = "done"
  /\ params.subset.given
  /\ UnknownNames # {}
  /\ \E e \in Entries : Recast(e) /\ GetCol(result, e.name) # GetCol(input, e.name)

\* C15: with a subset, every column the subset does not name has the type
\* and the values of the input, during the call and in the result, also
\* when a heuristic holds of it.
C15_OthersUntouched ==
  (Tabular /\ params.subset.given /\ pc # "call")
  =>
    \A j \in 1..Len(input) :
      input[j].name \notin SubsetNames =>
        /\ j <= Len(df) /\ df[j] = input[j]
        /\ pc = "done" => (j <= Len(result) /\ result[j] = input[j])

\* Column a alone was named and recast; column b, which the numeric
\* heuristic would make integer, is as it was.
C15_Witness ==
  /\ pc = "done"
  /\ params.subset = Subset(<<"a">>)
  /\ \E e \in Entries : Recast(e)
  /\ HasColumn(input, "b")
  /\ ColumnResult(GetCol(input, "b")).outcome = "int"
  /\ GetCol(result, "b") = GetCol(input, "b")

\* C16: with inplace=False the caller's dataset is at every point of the
\* call what it was before the call; the conversions are in the returned
\* dataset only.
C16_CopyIsolated ==
  (Tabular /\ ~params.inplace)
  =>
    /\ caller = input
    /\ pc = "done" => \A e \in Entries : GetCol(result, e.name) = e.post

\* In the middle of a pandas call on a copy: a column is recast already,
\* another is still to come.
C16_Witness ==
  /\ backend = "pandas"
  /\ ~params.inplace
  /\ pc = "loop"
  /\ i <= Len(cols)
  /\ \E e \in Entries : Recast(e) /\ GetCol(df, e.name) # GetCol(caller, e.name)

\* C17 as stated: with inplace=True the dataset returned is the caller's
\* own, which carries the conversions; with inplace=False it is a new
\* dataset; on both backends.
C17_InplaceBothBackends ==
  (Tabular /\ pc = "done")
  =>
    IF params.inplace THEN dfRef = "caller" /\ caller = result
    ELSE dfRef # "caller"

\* C17, amended: on pandas, inplace=True returns the caller's own dataset,
\* which carries the conversions, and inplace=False returns a copy and
\* leaves the caller's dataset alone.  On polars the caller's frame is never
\* changed, whatever inplace is; the frame returned is a new one exactly
\* when a column was recast, and the caller's own otherwise.
C17_InplaceOnPandas ==
  (Tabular /\ pc = "done")
  =>
    IF backend = "pandas"
    THEN IF params.inplace THEN dfRef = "caller" /\ caller = result
         ELSE dfRef = "copy" /\ caller = input
    ELSE /\ caller = input
         /\ dfRef = (IF \E e \in Entries : Recast(e) THEN "new" ELSE "caller")

\* A pandas call in place has returned the caller's dataset, changed.
C17_Witness ==
  /\ backend = "pandas"
  /\ params.inplace
  /\ pc = "done"
  /\ dfRef = "caller"
  /\ caller = result
  /\ caller # input

\* C18: infer_types raises iff its input is neither a pandas nor a polars
\* DataFrame: then it raises before anything is processed, and a DataFrame
\* never makes it raise.
C18_RaisesIffNotTabular ==
  /\ pc = "raised" => (~Tabular /\ log = <<>> /\ df = input /\ caller = input)
  /\ ~Tabular => pc \in {"call", "raised"}

AllEmpty(d) == \A j \in 1..Len(d) : Len(d[j].vals) = 0

\* C19: with an empty subset list, or a dataset without columns or without
\* rows, the dataset comes back as it was and nothing is raised; the empty
\* list does not stand for all the columns.
C19_EmptyIsNoOp ==
  ( /\ Tabular
    /\ \/ params.subset.given /\ Len(params.subset.names) = 0
       \/ Len(input) = 0
       \/ AllEmpty(input) )
  =>
    /\ pc # "raised"
    /\ df = input
    /\ caller = input
    /\ \A e \in Entries : ~Recast(e)
    /\ pc = "done" => result = input
    /\ (pc # "call" /\ params.subset.given /\ Len(params.subset.names) = 0)
         => cols = <<>>

\* A call with the empty list on a dataset whose first column a heuristic
\* holds of has returned the dataset as it was.
C19_Witness ==
  /\ pc = "done"
  /\ params.subset = Subset(<<>>)
  /\ Len(input) > 0
  /\ Recast(LogEntry(input[1], ColumnResult(input[1])))
  /\ result = input

\* C20: what infer_types makes of a column depends on the values of that
\* column and the thresholds only: whatever the order of the columns and of
\* the names in subset and whatever the other columns hold, a column of df
\* is the input's column until its turn and from then on what the loop
\* makes of the input's column alone.
C20_ColumnwiseIndependent ==
  (Tabular /\ pc # "call")
  =>
    /\ Len(df) = Len(input)
    /\ \A j \in 1..Len(input) :
         df[j] = IF \E e \in Entries : e.name = input[j].name
                 THEN ColumnResult(input[j]).col
                 ELSE input[j]
    /\ \A e \in Entries : e.pre = GetCol(input, e.name)
    /\ pc = "done" => result = df

\* Both columns were recast, b before a, in a dataset that has a before b.
C20_Witness ==
  /\ pc = "done"
  /\ Names(input) = <<"a", "b">>
  /\ cols = <<"b", "a">>
  /\ \A e \in Entries : Recast(e)
  /\ Len(log) = 2
  /\ result # input

----------------------------------------------------------------------------
\* extract_currency.

\* The alternatives of the first group of CURRENCY_REGEX; one character
\* each, the four that are not ASCII written by name.
CurrencySymbols == {"$", "euro", "pound", "yen", "rupee"}

\* \d+ from position b: the last position of the longest run of digits, b - 1
\* when cs has no digit at b.
RECURSIVE DigitRunEnd(_, _)
DigitRunEnd(cs, b) ==
  IF b <= Len(cs) /\ cs[b] \in Digits THEN DigitRunEnd(cs, b + 1) ELSE b - 1

\* (?:,\d{3})* after position e
RECURSIVE GroupsEnd(_, _)
GroupsEnd(cs, e) ==
  IF e + 4 <= Len(cs) /\ cs[e + 1] = "," /\ AllDigits(SubSeq(cs, e + 2, e + 4))
  THEN GroupsEnd(cs, e + 4)
  ELSE e

\* (?:\.\d{1,2})? after position e
CentsEnd(cs, e) ==
  IF e + 2 <= Len(cs) /\ cs[e + 1] = "." /\ cs[e + 2] \in Digits
  THEN IF e + 3 <= Len(cs) /\ cs[e + 3] \in Digits THEN e + 3 ELSE e + 2
  ELSE e

\* CURRENCY_REGEX tried at position p of cs: whether it matches, the two
\* groups and the whole match.
MatchAt(cs, p) ==
  LET sym == p <= Len(cs) /\ cs[p] \in CurrencySymbols
      a == IF sym THEN p + 1 ELSE p
      blank == /\ a + 1 <= Len(cs)
               /\ cs[a] = " "
               /\ cs[a + 1] \in Digits
      b == IF blank THEN a + 1 ELSE a
      e == CentsEnd(cs, GroupsEnd(cs, DigitRunEnd(cs, b)))
  IN [ok |-> DigitRunEnd(cs, b) >= b,
      symbol |-> IF sym THEN <<cs[p]>> ELSE <<>>,
      number |-> SubSeq(cs, b, e),
      whole |-> SubSeq(cs, p, e)]

\* The leftmost position of cs where CURRENCY_REGEX matches, 0 if none.
SearchAt(cs) ==
  IF \E p \in 1..Len(cs) : MatchAt(cs, p).ok
  THEN CHOOSE p \in 1..Len(cs) :
         MatchAt(cs, p).ok /\ \A q \in 1..(p - 1) : ~MatchAt(cs, q).ok
  ELSE 0

\* The text of the model that has the characters cs.
TextOf(cs) == CHOOSE t \in DOMAIN Chars : Chars[t] = cs

\* A missing entry of an object column that is float NaN, not None.
NaN == [k |-> "null", s |-> "nan", n |-> 0]

\* extract_first_match(match_list) raises TypeError on NaN, which is true
\* in a condition and has no len().
ExtractFirstRaises(c) == c = NaN

\* matches.apply(extract_first_match), one entry: str.findall leaves a
\* missing entry as it is; the groups of the first match are joined.
PdExtractCell(c) ==
  IF IsNull(c) THEN Null
  ELSE LET cs == Chars[c.s]
           p == SearchAt(cs)
       IN IF p = 0 THEN Null
          ELSE Str(TextOf(Strip(MatchAt(cs, p).symbol \o MatchAt(cs, p).number)))

\* pl.col(col).str.extract(CURRENCY_REGEX, 0), one entry: the whole match
PlExtractCell(c) ==
  IF IsNull(c) THEN Null
  ELSE LET cs == Chars[c.s]
           p == SearchAt(cs)
       IN IF p = 0 THEN Null ELSE Str(TextOf(MatchAt(cs, p).whole))

\* f"{col}_currency"
NewCol(col) == col \o "_currency"

\* df[new_col] = series / df.with_columns(expr.alias(new_col)): a column of
\* that name is replaced where it stands, a new name is added at the end.
AssignCol(d, c) == IF HasColumn(d, c.name) THEN SetCol(d, c) ELSE Append(d, c)

\* "col in df.columns and df[col].dtype in ['object', 'string']" / "== pl.Utf8"
Eligible(d, col) == HasColumn(d, col) /\ GetCol(d, col).dtype = "text"

CurrencyTexts == {"$1", "$ 1", "x 1", "x", "1,000.5 $1", ""}
CurrencyCells == {Str(t) : t \in CurrencyTexts} \cup {Null, NaN}

\* Column a is text of up to MaxRuns rows or a float column; column b is
\* text; a column named a_currency may be there already.
CurrencyDatasets ==
  UNION {{<<ca, Column("b", "text", [j \in 1..Len(ca.vals) |-> Str("$1")])>>,
          <<ca, Column("b", "text", [j \in 1..Len(ca.vals) |-> Str("$1")]),
            Column("a_currency", "text", [j \in 1..Len(ca.vals) |-> Str("x")])>>} :
           ca \in UNION {{Column("a", "text", v) : v \in [1..n -> CurrencyCells]}
                         \cup {Column("a", "float", [j \in 1..n |-> Num(15)])} :
                           n \in 1..MaxRuns}}

CurrencySubsets ==
  {<<>>, <<"a">>, <<"zz", "b">>, <<"a", "b">>, <<"a", "a">>}

HasNaN(d) == \E j \in 1..Len(d) : \E h \in 1..Len(d[j].vals) : d[j].vals[h] = NaN

InitCurrency ==
  /\ backend \in {"pandas", "polars", "dict"}
  /\ plPhysCast = TRUE
  /\ caller \in CurrencyDatasets
  /\ backend = "polars" => ~HasNaN(caller)
  /\ df = caller
  /\ dfRef = "caller"
  /\ params \in {[subset |-> su] : su \in CurrencySubsets}
  /\ cols = <<>>
  /\ i = 1
  /\ pc = "call"
  /\ input = caller
  /\ log = <<>>
  /\ result = <<>>
  /\ calls = 0

\* Entry of extract_currency on a DataFrame.
CurrencyEnter ==
  /\ pc = "call"
  /\ backend \in {"pandas", "polars"}
  /\ df' = caller
  /\ cols' = params.subset
  /\ i' = 1
  /\ pc' = "loop"
  /\ UNCHANGED <<backend, plPhysCast, caller, dfRef, params, input, log, result,
                 calls>>

\* One iteration of "for col in subset" of either branch.
CurrencyStep ==
  /\ pc = "loop"
  /\ i <= Len(cols)
  /\ LET col == cols[i]
         vals == GetCol(df, col).vals
         new == Column(NewCol(col), "text",
                       [j \in 1..Len(vals) |->
                          IF backend = "pandas" THEN PdExtractCell(vals[j])
                          ELSE PlExtractCell(vals[j])])
     IN IF ~Eligible(df, col)
        THEN /\ log' = Append(log, [name |-> col, outcome |-> "skipped"])
             /\ i' = i + 1
             /\ UNCHANGED <<df, dfRef, pc>>
        ELSE IF backend = "pandas" /\ \E j \in 1..Len(vals) : ExtractFirstRaises(vals[j])
        THEN /\ pc' = "raised"
             /\ UNCHANGED <<df, dfRef, log, i>>
        ELSE /\ df' = AssignCol(df, new)
             /\ dfRef' = IF backend = "polars" THEN "new" ELSE dfRef
             /\ log' = Append(log, [name |-> col, outcome |-> "added"])
             /\ i' = i + 1
             /\ pc' = pc
  /\ caller' = IF backend = "pandas" THEN df' ELSE caller
  /\ UNCHANGED <<backend, plPhysCast, params, cols, input, result, calls>>

\* return df
CurrencyReturn ==
  /\ pc = "loop"
  /\ i > Len(cols)
  /\ result' = df
  /\ pc' = "done"
  /\ UNCHANGED <<backend, plPhysCast, caller, df, dfRef, params, cols, i, input,
                 log, calls>>

NextCurrency == CurrencyEnter \/ CurrencyStep \/ CurrencyReturn \/ Raise

SpecCurrency == InitCurrency /\ [][NextCurrency]_vars

\* The names of subset extract_currency is to add a column for.
CurrencyNames ==
  {params.subset[j] : j \in {j \in 1..Len(params.subset) :
                               Eligible(input, params.subset[j])}}

\* C21: extract_currency adds a column "<col>_currency" for exactly the
\* names of subset that are text columns of the dataset; other names are
\* skipped without error and get no column; no column of the input is
\* modified or removed.
C21_CurrencyColumnsAdded ==
  Tabular =>
    /\ pc # "raised"
    /\ pc = "done" =>
         /\ {result[j].name : j \in 1..Len(result)}
              = {input[j].name : j \in 1..Len(input)}
                  \cup {NewCol(n) : n \in CurrencyNames}
         /\ Len(result) >= Len(input)
         /\ \A j \in 1..Len(input) : result[j] = input[j]

\* The rendering of the first currency occurrence: the symbol, if any,
\* immediately followed by the number.
Rendered(c) ==
  IF IsNull(c) THEN Null
  ELSE LET cs == Chars[c.s]
           p == SearchAt(cs)
       IN IF p = 0 THEN Null
          ELSE Str(TextOf(MatchAt(cs, p).symbol \o MatchAt(cs, p).number))

\* C22: in every row of a processed column the value written is the first
\* currency occurrence of the text, the symbol immediately followed by the
\* number without whitespace, and null when the text is null or has no
\* match; the same on both backends.
C22_FirstOccurrenceRendered ==
  (Tabular /\ pc = "done") =>
    \A n \in CurrencyNames :
      /\ HasColumn(result, NewCol(n))
      /\ LET src == GetCol(input, n).vals
             out == GetCol(result, NewCol(n)).vals
         IN /\ Len(out) = Len(src)
            /\ \A j \in 1..Len(src) : out[j] = Rendered(src[j])

----------------------------------------------------------------------------
\* handle_outliers.

RECURSIVE SumOf(_)
SumOf(vals) == IF Len(vals) = 0 THEN 0 ELSE Head(vals).n + SumOf(Tail(vals))

\* Len(vals) times the distance of entry j from the mean of the column.
Dev(vals, j) == Len(vals) * vals[j].n - SumOf(vals)

RECURSIVE SumSqDev(_, _)
SumSqDev(vals, j) ==
  IF j = 0 THEN 0 ELSE Dev(vals, j) * Dev(vals, j) + SumSqDev(vals, j - 1)

\* x.std() == 0 (sample standard deviation, of two rows or more)
StdIsZero(vals) == SumSqDev(vals, Len(vals)) = 0

\* abs((x - mean) / std) <= threshold for entry j, std not 0: both sides
\* squared and multiplied by Len^2 * (Len - 1) * std^2.
WithinZ(vals, j, threshold) ==
  Dev(vals, j) * Dev(vals, j) * (Len(vals) - 1)
    <= threshold * threshold * SumSqDev(vals, Len(vals))

\* (z_scores.abs() <= threshold) of the pandas branch: with std 0 the score
\* is 0/0 = NaN and the comparison is False.
PdKeepZ(vals, j, threshold) == ~StdIsZero(vals) /\ WithinZ(vals, j, threshold)

\* The k-th smallest number of vals.
Kth(vals, k) ==
  LET ns == {vals[j].n : j \in 1..Len(vals)}
  IN CHOOSE v \in ns :
       /\ Cardinality({j \in 1..Len(vals) : vals[j].n < v}) < k
       /\ Cardinality({j \in 1..Len(vals) : vals[j].n <= v}) >= k

\* Four times quantile(quarters / 4): linear interpolation between the two
\* neighbours of position (Len - 1) * quarters / 4.  On a whole position,
\* the only ones of the model, polars' "nearest" gives the same.
Quantile4(vals, quarters) ==
  LET pos4 == (Len(vals) - 1) * quarters
      lo == (pos4 \div 4) + 1
      r == pos4 % 4
  IN IF r = 0 THEN 4 * Kth(vals, lo)
     ELSE 4 * Kth(vals, lo) + r * (Kth(vals, lo + 1) - Kth(vals, lo))

\* Eight times Q1 - 1.5 * IQR and Q3 + 1.5 * IQR
Lower8(vals) ==
  2 * Quantile4(vals, 1) - 3 * (Quantile4(vals, 3) - Quantile4(vals, 1))
Upper8(vals) ==
  2 * Quantile4(vals, 3) + 3 * (Quantile4(vals, 3) - Quantile4(vals, 1))

\* (x >= lower_bound) & (x <= upper_bound) for entry j
WithinIqr(vals, j) ==
  Lower8(vals) <= 8 * vals[j].n /\ 8 * vals[j].n <= Upper8(vals)

IsNumeric(c) == c.dtype \in {"int", "float"}
NumericNames(d) == SelectSeq(Names(d), LAMBDA n : IsNumeric(GetCol(d, n)))

\* "if columns:" is true of a list that is not empty
Truthy(columns) == columns.given /\ Len(columns.names) > 0

\* numeric_cols of the pandas branch
PdNumericCols(d, columns) ==
  IF Truthy(columns)
  THEN SelectSeq(columns.names,
                 LAMBDA n : HasColumn(d, n) /\ IsNumeric(GetCol(d, n)))
  ELSE NumericNames(d)

\* numeric_cols of the polars branch
PlNumericCols(d, columns) ==
  IF Truthy(columns)
  THEN SelectSeq(columns.names,
                 LAMBDA n : \E j \in 1..Len(NumericNames(d)) : NumericNames(d)[j] = n)
  ELSE NumericNames(d)

RowCount(d) == IF Len(d) = 0 THEN 0 ELSE Len(d[1].vals)

\* The rows of d at the positions of keep, in their order.
RECURSIVE KeepVals(_, _, _)
KeepVals(vals, keep, j) ==
  IF j > Len(vals) THEN <<>>
  ELSE IF j \in keep THEN <<vals[j]>> \o KeepVals(vals, keep, j + 1)
  ELSE KeepVals(vals, keep, j + 1)

\* df[keep_rows] / df.filter(final_condition)
FilterRows(d, keep) ==
  [j \in 1..Len(d) |-> Column(d[j].name, d[j].dtype, KeepVals(d[j].vals, keep, 1))]

ColSeqSet(names) == {names[j] : j \in 1..Len(names)}

\* keep_rows of the pandas branch
PdKeepRows(d, names, method, threshold) ==
  {r \in 1..RowCount(d) :
     \A n \in ColSeqSet(names) :
       IF method = "iqr" THEN WithinIqr(GetCol(d, n).vals, r)
       ELSE PdKeepZ(GetCol(d, n).vals, r, threshold)}

\* final_condition of the polars branch: a column with std 0 has no
\* condition under zscore.
PlConditionCols(d, names, method) ==
  {n \in ColSeqSet(names) :
     method = "iqr" \/ (method = "zscore" /\ ~StdIsZero(GetCol(d, n).vals))}

PlKeepRows(d, names, method, threshold) ==
  {r \in 1..RowCount(d) :
     \A n \in PlConditionCols(d, names, method) :
       IF method = "iqr" THEN WithinIqr(GetCol(d, n).vals, r)
       ELSE WithinZ(GetCol(d, n).vals, r, threshold)}

\* Five rows, as the fixtures have: a column with an outlier, one without,
\* one of a single value.
OutlierVectors == {<<1, 2, 3, 4, 100>>, <<1, 2, 3, 4, 5>>, <<1, 1, 1, 1, 1>>,
                   <<100, 4, 3, 2, 1>>}

NumCol(name, v) == Column(name, "int", [j \in 1..Len(v) |-> Num(10 * v[j])])

OutlierDatasets ==
  {<<NumCol("v", v), NumCol("w", w),
     Column("s", "text", [j \in 1..Len(v) |-> Str("x")])>> :
       <<v, w>> \in OutlierVectors \X OutlierVectors}

OutlierParams ==
  {[method |-> m, columns |-> co, action |-> ac, threshold |-> th] :
     <<m, co, ac, th>> \in
       {"iqr", "zscore", "mad"}
       \X {NoSubset, Subset(<<"v">>), Subset(<<"s">>), Subset(<<"zz", "w">>)}
       \X {"remove", "cap"}
       \X {1, 3}}

InitOutliers ==
  /\ backend \in {"pandas", "polars", "dict"}
  /\ plPhysCast = TRUE
  /\ caller \in OutlierDatasets
  /\ df = caller
  /\ dfRef = "caller"
  /\ params \in OutlierParams
  /\ cols = <<>>
  /\ i = 1
  /\ pc = "call"
  /\ input = caller
  /\ log = <<>>
  /\ result = <<>>
  /\ calls = 0

\* The pandas branch of handle_outliers.
OutliersPandas ==
  /\ pc = "call"
  /\ backend = "pandas"
  /\ LET numeric_cols == PdNumericCols(df, params.columns)
     IN /\ cols' = numeric_cols
        /\ IF Truthy(params.columns) /\ Len(numeric_cols) = 0
           THEN result' = df /\ pc' = "done" /\ dfRef' = "caller"
           ELSE IF params.method \in {"iqr", "zscore"}
           THEN /\ result' = FilterRows(df, PdKeepRows(df, numeric_cols,
                                            params.method, params.threshold))
                /\ pc' = "done"
                /\ dfRef' = "new"
           ELSE /\ pc' = "value_error"
                /\ UNCHANGED <<result, dfRef>>
  /\ UNCHANGED <<backend, plPhysCast, caller, df, params, i, input, log, calls>>

\* The polars branch of handle_outliers.
OutliersPolars ==
  /\ pc = "call"
  /\ backend = "polars"
  /\ LET numeric_cols == PlNumericCols(df, params.columns)
         conditions == PlConditionCols(df, numeric_cols, params.method)
     IN /\ cols' = numeric_cols
        /\ IF Len(numeric_cols) = 0 \/ conditions = {}
           THEN result' = df /\ dfRef' = "caller"
           ELSE /\ result' = FilterRows(df, PlKeepRows(df, numeric_cols,
                                            params.method, params.threshold))
                /\ dfRef' = "new"
  /\ pc' = "done"
  /\ UNCHANGED <<backend, plPhysCast, caller, df, params, i, input, log, calls>>

NextOutliers == OutliersPandas \/ OutliersPolars \/ Raise

SpecOutliers == InitOutliers /\ [][NextOutliers]_vars

\* Entry r of a column is an outlier under the method: outside the IQR
\* bounds, or further than threshold standard deviations from the mean (no
\* entry of a column whose standard deviation is 0 is).
Outlier(vals, r) ==
  IF params.method = "iqr" THEN ~WithinIqr(vals, r)
  ELSE ~StdIsZero(vals) /\ ~WithinZ(vals, r, params.threshold)

\* The rows without an outlier in a considered column.
CleanRows ==
  {r \in 1..RowCount(input) :
     \A n \in ColSeqSet(cols) : ~Outlier(GetCol(input, n).vals, r)}

\* C23: handle_outliers applies the action its action parameter names:
\* "remove" drops the rows with an outlier in a considered numeric column,
\* "cap" keeps every row and replaces an outlier by the bound it exceeds.
C23_ActionApplied ==
  (Tabular /\ pc = "done" /\ params.method \in {"iqr", "zscore"} /\ Len(cols) > 0)
  =>
    IF params.action = "remove"
    THEN result = FilterRows(input, CleanRows)
    ELSE /\ Names(result) = Names(input)
         /\ RowCount(result) = RowCount(input)
         /\ \A j \in 1..Len(input) : \A r \in 1..RowCount(input) :
              LET vals == input[j].vals
                  out == result[j].vals[r]
              IN IF input[j].name \in ColSeqSet(cols) /\ Outlier(vals, r)
                 THEN params.method = "iqr" =>
                        8 * out.n = (IF 8 * vals[r].n > Upper8(vals)
                                     THEN Upper8(vals) ELSE Lower8(vals))
                 ELSE out = vals[r]

\* C24: handle_outliers raises ValueError whenever method is neither
\* "zscore" nor "iqr", on both backends and whatever columns is, and
\* returns no dataset then.
C24_UnknownMethodRaises ==
  (Tabular /\ pc # "call" /\ params.method \notin {"iqr", "zscore"})
  =>
    pc = "value_error" /\ result = <<>>

\* C30: under "zscore" a considered numeric column whose standard deviation
\* is 0 contributes no outlier: the rows removed are those with an entry
\* beyond the threshold in a column whose standard deviation is not 0.
C30_ConstantColumnKeepsRows ==
  (Tabular /\ pc = "done" /\ params.method = "zscore")
  =>
    result = FilterRows(input,
               {r \in 1..RowCount(input) :
                  \A n \in ColSeqSet(cols) :
                    StdIsZero(GetCol(input, n).vals)
                      \/ WithinZ(GetCol(input, n).vals, r, params.threshold)})

----------------------------------------------------------------------------
\* The Sanex class and the column-name functions it chains.

Upper(cs) == [j \in 1..Len(cs) |-> UpperChar(cs[j])]

\* \w and \W
IsWord(c) == IsUpper(c) \/ IsLower(c) \/ c \in Digits \/ c = "_"

\* re.sub(r'^[\d\W]+', '', name)
RECURSIVE DropLeading(_)
DropLeading(cs) ==
  IF Len(cs) > 0 /\ (cs[1] \in Digits \/ ~IsWord(cs[1]))
  THEN DropLeading(Tail(cs))
  ELSE cs

\* re.sub(r'(?<!^)(?=[A-Z][a-z])', sep, name), from position j on
RECURSIVE BeforeCaps(_, _, _)
BeforeCaps(cs, sep, j) ==
  IF j > Len(cs) THEN <<>>
  ELSE (IF j > 1 /\ j < Len(cs) /\ IsUpper(cs[j]) /\ IsLower(cs[j + 1])
        THEN <<sep, cs[j]>> ELSE <<cs[j]>>) \o BeforeCaps(cs, sep, j + 1)

\* re.sub of every run of characters of set by sep
RECURSIVE ReplaceRuns(_, _, _)
ReplaceRuns(cs, set, sep) ==
  IF Len(cs) = 0 THEN <<>>
  ELSE IF cs[1] \in set
  THEN IF Len(cs) > 1 /\ cs[2] \in set THEN ReplaceRuns(Tail(cs), set, sep)
       ELSE <<sep>> \o ReplaceRuns(Tail(cs), set, sep)
  ELSE <<cs[1]>> \o ReplaceRuns(Tail(cs), set, sep)

\* re.sub(r'[^\w]', sep, name); with keep = {"-"} it is r'[^\w-]'
NonWordTo(cs, sep, keep) ==
  [j \in 1..Len(cs) |-> IF IsWord(cs[j]) \/ cs[j] \in keep THEN cs[j] ELSE sep]

\* re.sub(r'[^\w]', '', word)
WordCharsOnly(cs) == SelectSeq(cs, IsWord)

\* name.strip(ch)
RECURSIVE StripChar(_, _)
StripChar(cs, ch) ==
  IF Len(cs) = 0 THEN cs
  ELSE IF cs[1] = ch THEN StripChar(Tail(cs), ch)
  ELSE IF cs[Len(cs)] = ch THEN StripChar(SubSeq(cs, 1, Len(cs) - 1), ch)
  ELSE cs

\* re.split on runs of characters of set, the empty pieces left out
RECURSIVE SplitOn(_, _, _)
SplitOn(cs, set, word) ==
  IF Len(cs) = 0 THEN (IF Len(word) = 0 THEN <<>> ELSE <<word>>)
  ELSE IF cs[1] \in set
  THEN (IF Len(word) = 0 THEN <<>> ELSE <<word>>) \o SplitOn(Tail(cs), set, <<>>)
  ELSE SplitOn(Tail(cs), set, Append(word, cs[1]))

\* word.isalpha()
IsAlpha(cs) == Len(cs) > 0 /\ \A j \in 1..Len(cs) : IsUpper(cs[j]) \/ IsLower(cs[j])

\* word.capitalize()
Capitalize(cs) ==
  [j \in 1..Len(cs) |-> IF j = 1 THEN UpperChar(cs[j]) ELSE LowerChar(cs[j])]

\* sep.join(words)
RECURSIVE Join(_, _)
Join(words, sep) ==
  IF Len(words) = 0 THEN <<>>
  ELSE IF Len(words) = 1 THEN words[1]
  ELSE words[1] \o sep \o Join(Tail(words), sep)

ConvertToSnakeCase(name) ==
  LET n1 == DropLeading(name)
      n2 == BeforeCaps(n1, "_", 1)
      n3 == ReplaceRuns(n2, {"-", " "}, "_")
      n4 == NonWordTo(n3, "_", {})
      n5 == ReplaceRuns(n4, {"_"}, "_")
  IN StripChar(Lower(n5), "_")

\* The words of _convert_to_camel_case and _convert_to_pascal_case
CaseWords(name) ==
  LET words == SplitOn(Lower(DropLeading(name)), {"-", "_", " "}, <<>>)
  IN [j \in 1..Len(SelectSeq(words, IsAlpha)) |->
        WordCharsOnly(SelectSeq(words, IsAlpha)[j])]

ConvertToCamelCase(name) ==
  LET words == CaseWords(name)
  IN IF Len(words) = 0 THEN DropLeading(name)
     ELSE Lower(words[1])
            \o Join([j \in 1..(Len(words) - 1) |-> Capitalize(words[j + 1])], <<>>)

ConvertToPascalCase(name) ==
  LET words == CaseWords(name)
  IN IF Len(words) = 0 THEN DropLeading(name)
     ELSE Join([j \in 1..Len(words) |-> Capitalize(words[j])], <<>>)

\* re.search(r'[A-Z][a-z]', name)
HasCapLower(cs) ==
  \E j \in 1..(Len(cs) - 1) : IsUpper(cs[j]) /\ IsLower(cs[j + 1])

ConvertToKebabCase(name) ==
  IF (\E j \in 1..Len(name) : name[j] = "_") /\ ~HasCapLower(name)
  THEN [j \in 1..Len(name) |->
          IF name[j] = "_" THEN "-" ELSE LowerChar(name[j])]
  ELSE LET n1 == BeforeCaps(name, "-", 1)
           n2 == ReplaceRuns(n1, {" "}, "-")
           n3 == NonWordTo(n2, "-", {"-"})
           n4 == Lower(ReplaceRuns(n3, {"-"}, "-"))
       IN StripChar(n4, "-")

ConvertToTitleCase(name) ==
  LET words == SplitOn(name, {"-", "_"}, <<>>)
  IN Join([j \in 1..Len(words) |-> Capitalize(WordCharsOnly(words[j]))], <<" ">>)

ConvertToLowerCase(name) == Lower(name)

ScreamingSnakeCase(name) == Upper(ConvertToSnakeCase(name))

\* The function each chainable method of Sanex passes self._df to, by the
\* name of the method, applied to one column name.
CaseFunc(method, name) ==
  CASE method = "snakecase" -> ConvertToSnakeCase(name)
    [] method = "camelcase" -> ConvertToCamelCase(name)
    [] method = "pascalcase" -> ConvertToPascalCase(name)
    [] method = "kebabcase" -> ConvertToKebabCase(name)
    [] method = "titlecase" -> ConvertToTitleCase(name)
    [] method = "lowercase" -> ConvertToLowerCase(name)
    [] method = "screaming_snakecase" -> ScreamingSnakeCase(name)

\* case_functions of clean_column_names: the function of a case, "" for a
\* case that is no key.
CaseFunctions(case) ==
  CASE case \in {"snake", "snake_case"} -> "snakecase"
    [] case \in {"camel", "camelCase"} -> "camelcase"
    [] case \in {"pascal", "PascalCase"} -> "pascalcase"
    [] case \in {"kebab", "kebab-case"} -> "kebabcase"
    [] case \in {"title", "Title Case"} -> "titlecase"
    [] case = "lower" -> "lowercase"
    [] case \in {"screaming_snake", "SCREAMING_SNAKE_CASE"} -> "screaming_snakecase"
    [] OTHER -> ""

\* _apply_column_case: df.columns = [case_func(col) for col in df.columns],
\* assigned on the DataFrame that was passed in.
ApplyColumnCase(d, method) ==
  [j \in 1..Len(d) |-> [d[j] EXCEPT !.name = CaseFunc(method, d[j].name)]]

\* polars refuses a list of column names that holds one name twice.
DuplicateNames(d) ==
  \E j, k \in 1..Len(d) : j < k /\ d[j].name = d[k].name

\* remove_duplicates, whose body is not part of the sources: by the
\* docstring of the method it removes duplicate rows and duplicate columns.
\* Of equal rows and of columns of one name the first is kept.
RemoveDuplicates(d) ==
  LET FirstOfName(j) == \A k \in 1..(j - 1) : d[k].name # d[j].name
      FirstOfRow(r) ==
        \A q \in 1..(r - 1) : \E j \in 1..Len(d) : d[j].vals[q] # d[j].vals[r]
      rows == IF Len(d) = 0 THEN {}
              ELSE {r \in 1..Len(d[1].vals) : FirstOfRow(r)}
      first == SelectSeq([j \in 1..Len(d) |-> j], FirstOfName)
      kept == [k \in 1..Len(first) |-> d[first[k]]]
  IN [j \in 1..Len(kept) |->
        [kept[j] EXCEPT !.vals = KeepVals(kept[j].vals, rows, 1)]]

\* The functions of the package by name: what function(df) returns.  A call
\* is [method |-> ..., case |-> ...], case read by clean_column_names only.
FunctionResult(d, fn, case) ==
  CASE fn = "remove_duplicates" -> RemoveDuplicates(d)
    [] fn = "clean_column_names" -> ApplyColumnCase(d, CaseFunctions(case))
    [] OTHER -> ApplyColumnCase(d, fn)

\* clean_column_names raises ValueError for a case that is no key.
UnsupportedCase(fn, case) ==
  fn = "clean_column_names" /\ CaseFunctions(case) = ""

\* The function each method of Sanex calls on self._df.
SanexCallsSwapped(method) ==
  CASE method = "kebabcase" -> "snakecase"
    [] method = "snakecase" -> "kebabcase"
    [] OTHER -> method
SanexCalls(method) ==
  CASE method = "clean_column_names" -> "clean_column_names"
    [] method = "remove_duplicates" -> "remove_duplicates"
    [] method = "snakecase" -> "snakecase"
    [] method = "camelcase" -> "camelcase"
    [] method = "pascalcase" -> "pascalcase"
    [] method = "kebabcase" -> "kebabcase"
    [] method = "titlecase" -> "titlecase"
    [] method = "lowercase" -> "lowercase"
    [] method = "screaming_snakecase" -> "screaming_snakecase"

\* Column names, character by character.
SanexNames ==
  { << <<"F","i","r","s","t"," ","N","a","m","e">>, <<"L","a","s","t","N","a","m","e">> >>,
    << <<"A","g","e">>, <<"a","g","e">> >>,
    << <<"f","i","r","s","t","_","n","a","m","e">>, <<"2","n","d","-","c","o","l">> >>,
    << <<"u","s","e","r","I","D">>, <<"T","o","t","a","l"," ","$">> >> }

\* Two columns of two rows; the rows are equal or not.
SanexDatasets ==
  { << Column(ns[1], "int", <<Num(10), Num(v)>>),
       Column(ns[2], "int", <<Num(20), Num(20)>>) >> :
      ns \in SanexNames, v \in {10, 30} }

SanexCases == {"snake", "Title Case", "upper"}

InitSanex ==
  /\ backend \in {"pandas", "polars", "dict"}
  /\ plPhysCast = TRUE
  /\ caller \in SanexDatasets
  /\ df = <<>>
  /\ dfRef = "caller"
  /\ params = <<>>
  /\ cols = <<>>
  /\ i = 1
  /\ pc = "call"
  /\ input = caller
  /\ log = <<>>
  /\ result = <<>>
  /\ calls = 0

\* Sanex(df): self._df is the DataFrame that was passed in.
SanexInit ==
  /\ pc = "call"
  /\ Tabular
  /\ df' = caller
  /\ pc' = "sanex"
  /\ UNCHANGED <<backend, plPhysCast, caller, dfRef, params, cols, i, input,
                 log, result, calls>>

\* The body of a chainable method: self._df = function(self._df); return
\* self.  The
\* case functions rename the columns of the DataFrame they are given, which
\* is the caller's.
Chain(method, case) ==
  LET fn == SanexCalls(method)
      out == FunctionResult(df, fn, case)
  IN /\ calls < MaxCalls
     /\ IF UnsupportedCase(fn, case)
        THEN /\ pc' = "value_error"
             /\ UNCHANGED <<caller, df, log, result, calls>>
        ELSE IF backend = "polars" /\ DuplicateNames(out)
        THEN /\ pc' = "raised"
             /\ UNCHANGED <<caller, df, log, result, calls>>
        ELSE /\ df' = out
             /\ caller' = IF fn = "remove_duplicates" THEN caller
                          ELSE [j \in 1..Len(caller) |->
                                  [caller[j] EXCEPT !.name = out[j].name]]
             /\ log' = Append(log, [method |-> method, case |-> case])
             /\ result' = <<"self">>
             /\ calls' = calls + 1
             /\ pc' = pc
     /\ UNCHANGED <<backend, plPhysCast, dfRef, params, cols, i, input>>

\* The chainable methods, called on a constructed object.
SanexCleanColumnNames ==
  /\ pc = "sanex"
  /\ \E case \in SanexCases : Chain("clean_column_names", case)
SanexRemoveDuplicates ==
  /\ pc = "sanex"
  /\ Chain("remove_duplicates", "")
SanexSnakecase ==
  /\ pc = "sanex"
  /\ Chain("snakecase", "")
SanexCamelcase ==
  /\ pc = "sanex"
  /\ Chain("camelcase", "")
SanexPascalcase ==
  /\ pc = "sanex"
  /\ Chain("pascalcase", "")
SanexKebabcase ==
  /\ pc = "sanex"
  /\ Chain("kebabcase", "")
SanexTitlecase ==
  /\ pc = "sanex"
  /\ Chain("titlecase", "")
SanexLowercase ==
  /\ pc = "sanex"
  /\ Chain("lowercase", "")
SanexScreamingSnakecase ==
  /\ pc = "sanex"
  /\ Chain("screaming_snakecase", "")

\* to_df: return self._df
ToDf ==
  /\ pc = "sanex"
  /\ result' = df
  /\ pc' = "done"
  /\ UNCHANGED <<backend, plPhysCast, caller, df, dfRef, params, cols, i,
                 input, log, calls>>

NextSanex ==
  \/ SanexInit
  \/ SanexCleanColumnNames
  \/ SanexRemoveDuplicates
  \/ SanexSnakecase
  \/ SanexCamelcase
  \/ SanexPascalcase
  \/ SanexKebabcase
  \/ SanexTitlecase
  \/ SanexLowercase
  \/ SanexScreamingSnakecase
  \/ ToDf
  \/ Raise

SpecSanex == InitSanex /\ [][NextSanex]_vars

\* The functions named like the methods called, applied in call order.
RECURSIVE InCallOrder(_, _)
InCallOrder(d, called) ==
  IF Len(called) = 0 THEN d
  ELSE InCallOrder(FunctionResult(d, called[1].method, called[1].case),
                   Tail(called))

\* C25: a Sanex object exists only for a pandas or polars DataFrame, anything
\* else raising TypeError; every chainable method that returns returns the
\* instance it was called on; and to_df returns the DataFrame got by applying
\* the functions named like the methods to the wrapped DataFrame in call order.
C25_ChainInCallOrder ==
  /\ (backend \notin {"pandas", "polars"}) => pc \in {"call", "raised"}
  /\ (pc = "sanex" /\ Len(log) > 0) => result = <<"self">>
  /\ (pc \in {"sanex", "done"}) =>
        df = InCallOrder(input, log)
  /\ (pc = "done") => result = InCallOrder(input, log)

\* Two different methods were chained, their order matters, and to_df returned.
C25_Witness ==
  /\ pc = "done"
  /\ Len(log) = 2
  /\ log[1].method # log[2].method
  /\ result # input
  /\ result # InCallOrder(input, <<log[2], log[1]>>)

----------------------------------------------------------------------------
\* The two branches of infer_types on one text column.

\* The column the branch of the other backend makes of column c.
OtherBranch(c) ==
  IF backend = "pandas" THEN PolarsColumn(c, params, plPhysCast).col
  ELSE PandasColumn(c, params).col

NullAt(vals) == {j \in 1..Len(vals) : IsNull(vals[j])}

\* C26: for the same values, subset and thresholds the pandas and the polars
\* branch give a text column the same type and null the same entries.
C26_BackendsAgree ==
  (pc = "done" /\ calls = 1) =>
     \A j \in 1..Len(input) :
        input[j].dtype = "text" =>
           /\ result[j].dtype = OtherBranch(input[j]).dtype
           /\ NullAt(result[j].vals) = NullAt(OtherBranch(input[j]).vals)

\* The column the branch of the backend of the run makes of column c.
SameBranch(c) ==
  IF backend = "pandas" THEN PandasColumn(c, params).col
  ELSE PolarsColumn(c, params, plPhysCast).col

\* Column c without its null entries.
WithoutNulls(c) == [c EXCEPT !.vals = DropNa(c.vals)]

\* C27: the type chosen for a column depends only on its non-null values and
\* the thresholds: the column gets the type that the column of its non-null
\* values alone gets.
C27_NullCountIrrelevant ==
  (pc = "done" /\ calls = 1) =>
     \A j \in 1..Len(input) :
        input[j].dtype = "text" =>
           result[j].dtype = SameBranch(WithoutNulls(input[j])).dtype

----------------------------------------------------------------------------
\* infer_types with a subset that names a column more than once.

DupSubsets ==
  {Subset(<<"a">>), Subset(<<"a", "a">>), Subset(<<"b", "a", "b">>)}

DupParams ==
  {[subset |-> su, numeric_threshold |-> 60, datetime_threshold |-> 60,
    category_unique_ratio |-> 5, inplace |-> TRUE] : su \in DupSubsets}

InitDup ==
  /\ backend \in {"pandas", "polars"}
  /\ plPhysCast \in BOOLEAN
  /\ backend = "pandas" => plPhysCast
  /\ caller \in CallDatasets
  /\ df = caller
  /\ dfRef = "caller"
  /\ params \in DupParams
  /\ cols = <<>>
  /\ i = 1
  /\ pc = "call"
  /\ input = caller
  /\ log = <<>>
  /\ result = <<>>
  /\ calls = 0

SpecDup == InitDup /\ [][Next]_vars

\* d after the columns of names, each converted once, in this order.
RECURSIVE EachOnce(_, _)
EachOnce(d, names) ==
  IF Len(names) = 0 THEN d
  ELSE LET r == IF backend = "pandas" THEN PandasColumn(GetCol(d, names[1]), params)
                ELSE PolarsColumn(GetCol(d, names[1]), params, plPhysCast)
       IN EachOnce(IF r.outcome \in {"skipped", "none", "error"} THEN d
                   ELSE SetCol(d, r.col), Tail(names))

\* The names of a sequence, each at its first place only.
FirstPlaces(names) ==
  SelectSeq([j \in 1..Len(names) |->
               IF \E k \in 1..(j - 1) : names[k] = names[j] THEN "" ELSE names[j]],
            LAMBDA name : name # "")

\* C28: a name that is twice in subset is converted as if it were there
\* once: infer_types(d, subset=[c, c]) is infer_types(d, subset=[c]).
C28_DuplicateNameOnce ==
  (pc = "done" /\ calls = 1) =>
     result = EachOnce(input,
                       SelectCols(input, Subset(FirstPlaces(params.subset.names))))

----------------------------------------------------------------------------
\* infer_types with thresholds at the ends of [0, 1].

ZeroParams ==
  {[subset |-> NoSubset, numeric_threshold |-> th[1],
    datetime_threshold |-> th[2], category_unique_ratio |-> 5,
    inplace |-> TRUE] : th \in {<<0, 0>>, <<0, 100>>, <<100, 0>>, <<100, 100>>}}

InitZero ==
  /\ backend \in {"pandas", "polars"}
  /\ plPhysCast \in BOOLEAN
  /\ backend = "pandas" => plPhysCast
  /\ caller \in TokenDatasets
  /\ df = caller
  /\ dfRef = "caller"
  /\ params \in ZeroParams
  /\ cols = <<>>
  /\ i = 1
  /\ pc = "call"
  /\ input = caller
  /\ log = <<>>
  /\ result = <<>>
  /\ calls = 0

SpecZero == InitZero /\ [][Next]_vars

\* C29: for thresholds anywhere in [0, 1], a text column with a non-null
\* value that the datetime or the numeric attempt recast keeps at least one
\* non-null value: no column with values is turned into an all-null column.
C29_WinnerParsedSomething ==
  (pc = "done" /\ calls = 1) =>
     \A j \in 1..Len(input) :
        (/\ input[j].dtype = "text"
         /\ NotNaCount(input[j].vals) > 0
         /\ result[j].dtype \in {"datetime", "int", "float"}) =>
           NotNaCount(result[j].vals) > 0

====
